---- MODULE Spec2Model ----
(***************************************************************************)
(* The compile actor of compiler/src/service/compile.rs: the event loop    *)
(* of CompileActor::spawn, CompileActor::process, apply_memory_changes,    *)
(* compile, and the client side (add_memory_changes, steal).               *)
(*                                                                         *)
(* A memory event's removes and inserts are Vecs in the source; the loops  *)
(* over them only insert into and remove from sets and maps, and every     *)
(* insert of one event carries that event's content here, so they are      *)
(* kept as sets of paths and the loops become set operations.              *)
(***************************************************************************)
EXTENDS Integers, Sequences, FiniteSets, TLC

\* ---------------------------------------------------------------- bounds
NumPaths == 1
MaxList == 1
MaxMem == 2
MaxFs == 1
MaxSteal == 1
MaxPages == 2
MaxItems == 2
MaxGlyphs == 2
MaxNumber == 3
MaxCalls == 3

Paths == 1..NumPaths

\* ------------------------------------------------------------- variables
VARIABLES
    logical_tick,               \* CompileActor.logical_tick
    dirty_shadow_logical_tick,  \* CompileActor.dirty_shadow_logical_tick
    estimated_shadow_files,     \* CompileActor.estimated_shadow_files
    latest_doc,                 \* CompileActor.latest_doc
    compiled,                   \* what driver.compile() returned to the last CompileActor::compile
    root,                       \* CompileActor.root: 0 = the root given to new, 1 = another one
    shadow,                     \* the compiler's shadow map: path -> content, 0 = unmapped
    deps,                       \* what the compiler's iter_dependencies enumerates
    fsq,                        \* fs_tx -> fs_rx
    memq,                       \* memory_send -> memory_recv
    stealq,                     \* steal_send -> steal_recv
    depq,                       \* dep_tx -> dep_rx
    pc,                         \* position of the compiler thread in the loop
    need_recompile,             \* the local of the loop body
    watcher_alive,              \* the watch_deps task (owner of dep_rx and fs_tx) still runs
    client_alive,               \* a CompileClient (its two senders) still exists
    nMem, nFs, nSteal,          \* how many events the environment has produced
    projected,                  \* history: ids of the memory events given to apply_memory_changes
    replies,                    \* history: what each steal closure sent back
    batch,                      \* history: what the batch in progress has processed, in order
    frames, leaf,               \* jump_from_cursor: the pages, and the leaf at the cursor
    jump,                       \* jump_from_cursor: what it returned
    trace,                      \* TraceAccessModel.trace
    inner_log,                  \* history: the calls the wrapped model received, with its results
    outer_log                   \* history: the calls made on the TraceAccessModel, with its results

vars == <<logical_tick, dirty_shadow_logical_tick, estimated_shadow_files, latest_doc, compiled,
          root, shadow, deps, fsq, memq, stealq, depq, pc, need_recompile, watcher_alive,
          client_alive, nMem, nFs, nSteal, projected, replies, batch,
          frames, leaf, jump, trace, inner_log, outer_log>>

\* What belongs to jump_from_cursor and to the TraceAccessModel.
otherVars == <<frames, leaf, jump, trace, inner_log, outer_log>>

actorVars == <<logical_tick, dirty_shadow_logical_tick, estimated_shadow_files, latest_doc, compiled,
               root, shadow, deps, pc, need_recompile, projected, replies, batch>>

\* ------------------------------------------------------------ data types
\* Option<Arc<TypstDocument>>: some = FALSE is None.  seen is bookkeeping on
\* top of the Option: how many memory events the compiler had been given when
\* the compile that stored this value ran (0 before the first compile).
NoDoc == [some |-> FALSE, seen |-> 0]
CompileResult(ok, n) == [some |-> ok, seen |-> n]

\* MemoryEvent::Sync(..) / MemoryEvent::Update(..); the content of every insert
\* of the event is the event's id.
MemoryEvent(i, s, r, ins) == [id |-> i, sync |-> s, removes |-> r, inserts |-> ins]
NoEvent == MemoryEvent(0, FALSE, {}, {})

SmallSets == {s \in SUBSET Paths : Cardinality(s) <= MaxList}

\* Option<FilesystemEvent>: None ("scan"), an ordinary change set ("fs"), or
\* FilesystemEvent::UpstreamUpdate carrying the TaggedMemoryEvent ("uu").
FsEvent(k, t, e) == [kind |-> k, tick |-> t, ev |-> e]

\* NotifyMessage::SyncDependency(deps) / NotifyMessage::UpstreamUpdate(..)
SyncDependency(d) == [kind |-> "SyncDependency", deps |-> d, invalidates |-> {},
                      tick |-> 0, ev |-> NoEvent]
UpstreamUpdate(inv, t, e) == [kind |-> "UpstreamUpdate", deps |-> {}, invalidates |-> inv,
                              tick |-> t, ev |-> e]

\* ------------------------------------------------------------------ Init
\* CompileActor::new, and the channels of spawn, all empty.
ActorInit ==
    /\ logical_tick = 1
    /\ dirty_shadow_logical_tick = 0
    /\ estimated_shadow_files = {}
    /\ latest_doc = NoDoc
    /\ compiled = NoDoc
    /\ root = 0
    /\ shadow = [p \in Paths |-> 0]
    /\ deps = {}
    /\ fsq = <<>>
    /\ memq = <<>>
    /\ stealq = <<>>
    /\ depq = <<>>
    /\ pc = "select"
    /\ need_recompile = FALSE
    /\ watcher_alive = TRUE
    /\ client_alive = TRUE
    /\ nMem = 0
    /\ nFs = 0
    /\ nSteal = 0
    /\ projected = <<>>
    /\ replies = <<>>
    /\ batch = <<>>

\* ------------------------------------------------------- jump_from_cursor
\* typst::geom::Point and Point + Point
Pt(a, b) == [x |-> a, y |-> b]
PointDefault == Pt(0, 0)
AddPoint(a, b) == Pt(a.x + b.x, a.y + b.y)

\* typst::syntax::Span: the source file it belongs to and its number in it.
Sp(f, n) == [id |-> f, number |-> n]

\* Option<Position>
NoPosition == [some |-> FALSE, page |-> 0, point |-> PointDefault]
Position(pg, pt) == [some |-> TRUE, page |-> pg, point |-> pt]

\* `u64::MAX`, the start value of min_dis.  Span numbers have 48 bits, so no
\* abs_diff of two of them reaches it; here it is the largest integer at hand.
U64Max == 2147483647

abs_diff(a, b) == IF a >= b THEN a - b ELSE b - a

\* What find_in_frame hands back: its Option<Point>, and min_dis and p, which
\* it updates through the two &mut.
Found(pt, md, pp) == [found |-> TRUE, point |-> pt, min_dis |-> md, p |-> pp]
NotFound(md, pp) == [found |-> FALSE, point |-> PointDefault, min_dis |-> md, p |-> pp]

\* `glyph.span.0.id() == span.id()`
SameSource(a, b) == a.id = b.id

\* `dis < *min_dis`
Nearer(dis, min_dis) == dis < min_dis

\* The loop over text.glyphs of find_in_frame; pos is advanced glyph by glyph.
RECURSIVE find_in_glyphs(_, _, _, _, _)
find_in_glyphs(glyphs, pos, span, min_dis, p) ==
    IF glyphs = <<>> THEN NotFound(min_dis, p)
    ELSE LET glyph == Head(glyphs)
             dis == abs_diff(glyph.span.number, span.number)
             hit == SameSource(glyph.span, span) /\ Nearer(dis, min_dis)
         IN  IF glyph.span = span THEN Found(pos, min_dis, p)
             ELSE find_in_glyphs(Tail(glyphs), [pos EXCEPT !.x = @ + glyph.x_advance], span,
                                 IF hit THEN dis ELSE min_dis,
                                 IF hit THEN pos ELSE p)

\* find_in_frame: the items in order; a group is searched first, and its
\* exact match is moved by the position of the group.
RECURSIVE find_in_frame(_, _, _, _)
find_in_frame(frame, span, min_dis, p) ==
    IF frame = <<>> THEN NotFound(min_dis, p)
    ELSE LET item == Head(frame)
             inner == find_in_frame(item.frame, span, min_dis, p)
             r == IF item.kind = "group"
                  THEN (IF inner.found
                        THEN Found(AddPoint(inner.point, item.pos), inner.min_dis, inner.p)
                        ELSE inner)
                  ELSE IF item.kind = "text"
                  THEN find_in_glyphs(item.glyphs, item.pos, span, min_dis, p)
                  ELSE NotFound(min_dis, p)
         IN  IF r.found THEN r ELSE find_in_frame(Tail(frame), span, r.min_dis, r.p)

\* The loop over frames.iter().enumerate() of jump_from_cursor, from the
\* frame of index i on, and what follows the loop.
RECURSIVE jump_pages(_, _, _, _, _, _)
jump_pages(fs, i, span, min_dis, p, ppage) ==
    IF i >= Len(fs)
    THEN (IF min_dis = U64Max THEN NoPosition ELSE Position(ppage + 1, p))
    ELSE LET r == find_in_frame(fs[i + 1], span, min_dis, p)
         IN  IF r.found THEN Position(i + 1, r.point)
             ELSE jump_pages(fs, i + 1, span, r.min_dis, r.p,
                             IF min_dis # r.min_dis THEN i ELSE ppage)

\* A slip: the kind of the leaf is not looked at.
AnyLeaf(lf) == TRUE

\* `node.kind() != SyntaxKind::Text` negated
IsText(lf) == lf.kind = "Text"

\* jump_from_cursor(frames, source, cursor); lf is what
\* LinkedNode::new(source.root()).leaf_at(cursor) gives.
jump_from_cursor(fs, lf) ==
    IF ~lf.some THEN NoPosition
    ELSE IF ~IsText(lf) THEN NoPosition
    ELSE jump_pages(fs, 0, lf.span, U64Max, PointDefault, 0)

\* The inputs of jump_from_cursor.  The leaf at the cursor, if there is one,
\* has span number 1 of source file 1; a glyph has a span of that file or
\* span number 1 of source file 2, and advances x by one unit.
LeafSpan == Sp(1, 1)
NoLeaf == [some |-> FALSE, kind |-> "None", span |-> LeafSpan]
Leaves == {NoLeaf,
           [some |-> TRUE, kind |-> "Text", span |-> LeafSpan],
           [some |-> TRUE, kind |-> "Space", span |-> LeafSpan]}
GlyphSpans == {Sp(1, n) : n \in 1..MaxNumber} \cup {Sp(2, 1)}
Glyph(s) == [span |-> s, x_advance |-> 1]
SeqsUpTo(S, n) == UNION {[1..k -> S] : k \in 0..n}

\* FrameItem::Text, FrameItem::Group and any other item, with its position.
Item(k, ps, g, f) == [kind |-> k, pos |-> ps, glyphs |-> g, frame |-> f]
TextRuns(n) == {[i \in DOMAIN g |-> Glyph(g[i])] : g \in SeqsUpTo(GlyphSpans, n) \ {<<>>}}
\* The i-th item of a page lies at (0, i); the one text of a group lies at
\* (3, 0) within the group, so every glyph of a page has a place of its own.
ItemsAt(i) ==
    {Item("text", Pt(0, i), g, <<>>) : g \in TextRuns(MaxGlyphs)}
    \cup {Item("group", Pt(0, i), <<>>, <<Item("text", Pt(3, 0), g, <<>>)>>) : g \in TextRuns(1)}
    \cup {Item("shape", Pt(0, i), <<>>, <<>>)}
Frames == UNION {{f \in [1..k -> UNION {ItemsAt(i) : i \in 1..MaxItems}] :
                     \A i \in 1..k : f[i] \in ItemsAt(i)} : k \in 0..MaxItems}

NotRun == [done |-> FALSE, res |-> NoPosition]
JumpIdle == frames = <<>> /\ leaf = NoLeaf /\ jump = NotRun

\* TraceAccessModel::new: `trace: Default::default()`
TraceIdle == trace = [i \in 0..5 |-> 0] /\ inner_log = <<>> /\ outer_log = <<>>

Init == ActorInit /\ JumpIdle /\ TraceIdle

\* The caller has a document and a cursor in a source.
JumpInit ==
    /\ ActorInit
    /\ \E n \in 0..MaxPages : frames \in [1..n -> Frames]
    /\ leaf \in Leaves
    /\ jump = NotRun
    /\ TraceIdle

\* resolve_src_to_doc_jump calls jump_from_cursor(&doc.pages, &source, cursor).
Jump ==
    /\ ~jump.done
    /\ jump' = [done |-> TRUE, res |-> jump_from_cursor(frames, leaf)]
    /\ UNCHANGED <<actorVars, fsq, memq, stealq, depq, watcher_alive, client_alive,
                   nMem, nFs, nSteal, frames, leaf, trace, inner_log, outer_log>>

JumpNext == Jump

JumpSpec == JumpInit /\ [][JumpNext]_vars

\* ------------------------------------------------------ TraceAccessModel
\* FileResult<T>: Ok(value) or Err(FileError); values and errors are numbered.
FileOk(v) == [ok |-> TRUE, val |-> v]
FileErr(e) == [ok |-> FALSE, val |-> e]
FileResults == {FileOk(0), FileOk(1), FileErr(1)}
\* `elapsed.as_nanos() as u64` of one call
Elapsed == {0, 1}

\* The index into `trace` each operation adds to; clear has none.
TraceSlot(op) ==
    CASE op = "mtime" -> 0
      [] op = "is_file" -> 1
      [] op = "real_path" -> 2
      [] op = "read_all" -> 3
      [] op = "read_all_diff" -> 4
      [] op = "replace_diff" -> 5
      [] OTHER -> -1

\* A slip: an error of the inner model is turned into a value.
ForwardOk(res) == [res EXCEPT !.ok = TRUE]

\* `let res = self.inner.op(src); .. res`
Forward(res) == res

\* One operation of the TraceAccessModel: the inner operation is called with
\* the same path and may return anything; the time it took is added to the
\* counter of the operation, and the result is handed on.
TraceCall(op, src, res, ns) ==
    /\ Len(outer_log) < MaxCalls
    /\ inner_log' = Append(inner_log, [op |-> op, src |-> src, res |-> res])
    /\ trace' = IF TraceSlot(op) >= 0
                THEN [trace EXCEPT ![TraceSlot(op)] = @ + ns]
                ELSE trace
    /\ outer_log' = Append(outer_log, [op |-> op, src |-> src, res |-> Forward(res)])
    /\ UNCHANGED <<actorVars, fsq, memq, stealq, depq, watcher_alive, client_alive,
                   nMem, nFs, nSteal, frames, leaf, jump>>

mtime == \E src \in Paths, res \in FileResults, ns \in Elapsed : TraceCall("mtime", src, res, ns)
is_file == \E src \in Paths, res \in FileResults, ns \in Elapsed : TraceCall("is_file", src, res, ns)
real_path == \E src \in Paths, res \in FileResults, ns \in Elapsed : TraceCall("real_path", src, res, ns)
read_all == \E src \in Paths, res \in FileResults, ns \in Elapsed : TraceCall("read_all", src, res, ns)
read_all_diff == \E src \in Paths, res \in FileResults, ns \in Elapsed : TraceCall("read_all_diff", src, res, ns)
replace_diff == \E src \in Paths, res \in FileResults, ns \in Elapsed : TraceCall("replace_diff", src, res, ns)
\* clear takes no path and returns nothing; it is not timed.
clear == TraceCall("clear", 0, FileOk(0), 0)

TraceNext ==
    \/ mtime \/ is_file \/ real_path \/ read_all
    \/ read_all_diff \/ replace_diff \/ clear

TraceSpec == Init /\ [][TraceNext]_vars

\* ------------------------------------------------- CompileActor::process
\* A slip: a Sync does not start from the previous estimate.
EstimateFilesOfRemoves(ev, est) == ev.removes \ ev.inserts

\* The invalidation working set `files` of the memory branch.
EstimateFiles(ev, est) ==
    LET files0 == IF ev.sync THEN est ELSE {}
    IN  (files0 \cup ev.removes) \ ev.inserts

\* A slip: the inserts are emulated before the removes.
EstimateShadowInsertsFirst(ev, est) ==
    LET est0 == IF ev.sync THEN {} ELSE est
    IN  (est0 \cup ev.inserts) \ ev.removes

\* estimated_shadow_files after the memory branch has emulated the event.
EstimateShadow(ev, est) ==
    LET est0 == IF ev.sync THEN {} ELSE est
    IN  (est0 \ ev.removes) \cup ev.inserts

\* A slip: the outstanding round trip is not looked at.
ApplyDirectlyIgnoringDirty(files, dirty) == files = {}

\* `files.is_empty() && self.dirty_shadow_logical_tick == 0`
ApplyDirectly(files, dirty) == files = {} /\ dirty = 0

\* A slip: the returned update is treated as a plain change set.
NeverUpstreamUpdate(e) == FALSE

\* `if let FilesystemEvent::UpstreamUpdate { .. } = &mut event`
IsUpstreamUpdate(e) == e.kind = "uu"

\* A slip: the tick of the first deferred event is kept while dirty.
MarkDirtyOnce(t, dirty) == IF dirty = 0 THEN t ELSE dirty

\* `self.dirty_shadow_logical_tick = self.logical_tick`
MarkDirty(t, dirty) == t

\* A slip: any returned update ends the dirty state.
RecoverAlways(t, dirty) == 0

\* A slip: the dirty state is never left.
RecoverNever(t, dirty) == dirty

\* `if logical_tick == self.dirty_shadow_logical_tick { .. = 0 }`
RecoverDirty(t, dirty) == IF t = dirty THEN 0 ELSE dirty

\* A slip: inserts are mapped before the removes are unmapped.
ApplyInsertsFirst(ev, sh) ==
    LET s0 == IF ev.sync THEN [p \in Paths |-> 0] ELSE sh
        s1 == [p \in Paths |-> IF p \in ev.inserts THEN ev.id ELSE s0[p]]
    IN  [p \in Paths |-> IF p \in ev.removes THEN 0 ELSE s1[p]]

\* A slip: the shadow map is reset for Update as well as for Sync.
ApplyAlwaysReset(ev, sh) ==
    [p \in Paths |-> IF p \in ev.inserts THEN ev.id ELSE 0]

\* A slip: the inserts are never mapped.
ApplyWithoutInserts(ev, sh) ==
    LET s0 == IF ev.sync THEN [p \in Paths |-> 0] ELSE sh
    IN  [p \in Paths |-> IF p \in ev.removes THEN 0 ELSE s0[p]]

\* CompileActor::apply_memory_changes on the compiler's shadow map:
\* reset_shadow for Sync, then unmap_shadow per remove, then map_shadow per insert.
ApplyMemoryChanges(ev, sh) ==
    LET s0 == IF ev.sync THEN [p \in Paths |-> 0] ELSE sh
        s1 == [p \in Paths |-> IF p \in ev.removes THEN 0 ELSE s0[p]]
    IN  [p \in Paths |-> IF p \in ev.inserts THEN ev.id ELSE s1[p]]

\* A slip: the flag of the last event overwrites the accumulated one.
AccumulateLast(r, need) == r

\* `need_recompile = self.process(event, ..) || need_recompile`
Accumulate(r, need) == r \/ need

\* A slip: the task is answered as if a compile ran just before it.
documentOnDemand == CompileResult(TRUE, Len(projected))

\* CompileActor::document
document == latest_doc

\* A slip: the clock is left alone.
WarpNot(t) == t

\* `self.logical_tick += 1`, the small step of the loop and the one of process.
Warp(t) == t + 1

\* The entries of the batch log: what process did with the event.
DirectKind(ev) == IF ev.sync THEN "directSync" ELSE "directUpdate"
FsKind(e) == IF e.kind = "uu" THEN (IF e.ev.sync THEN "uuSync" ELSE "uuUpdate") ELSE e.kind
ProjectingKinds == {"directSync", "directUpdate", "uuSync", "uuUpdate"}
NotifyingKinds == {"fs", "uuSync", "uuUpdate"}

\* How many memory events the batch log b says were projected in the batch.
RECURSIVE ProjectedIn(_)
ProjectedIn(b) ==
    IF b = <<>> THEN 0
    ELSE (IF Head(b) \in ProjectingKinds THEN 1 ELSE 0) + ProjectedIn(Tail(b))

\* compiler_ack: `dep_tx.send(msg).unwrap()`; the unwrap aborts the thread
\* when the watcher task, which owns dep_rx, is gone.
Send(msg, next) ==
    IF watcher_alive
    THEN depq' = Append(depq, msg) /\ pc' = next
    ELSE depq' = depq /\ pc' = "panicked"

\* A slip: a task whose reply nobody waits for is not run.
RunTaskIfWanted(task, r) == IF task.rx /\ task.f = "set_root" THEN 1 ELSE r

\* `task(self)`: what the closure f leaves in CompileActor.root.  The closure
\* "document" is |this| this.document(), the closure "set_root" is
\* |this| std::mem::replace(&mut this.root, other).
RunTask(task, r) == IF task.f = "set_root" THEN 1 ELSE r

\* A slip: the value is dropped instead of sent.
ReplyNeverSent(rx) == FALSE

\* `tx.send(f(this)).is_err()` negated: the oneshot send succeeds exactly
\* when the receiver still exists; otherwise only a warning is logged.
ReplySent(rx) == rx

\* process(CompilerInterrupt::Task(task)); t0 is logical_tick on entry, nr0 the
\* flag accumulated so far, b0 the log of the batch so far.
ProcessTask(task, t0, nr0, b0) ==
    /\ logical_tick' = Warp(t0)
    /\ root' = RunTask(task, root)
    /\ replies' = Append(replies, [id |-> task.id, f |-> task.f,
                                   after |-> task.after, afterUpdate |-> task.afterUpdate,
                                   doc |-> document, oldRoot |-> root,
                                   startSeen |-> Len(projected) - ProjectedIn(b0),
                                   wanted |-> task.rx, delivered |-> ReplySent(task.rx)])
    /\ need_recompile' = Accumulate(FALSE, nr0)
    /\ batch' = Append(b0, "task")
    /\ pc' = "drain"
    /\ UNCHANGED <<dirty_shadow_logical_tick, estimated_shadow_files, latest_doc, compiled,
                   shadow, deps, depq, projected>>

\* process(CompilerInterrupt::Memory(event))
ProcessMemory(ev, t0, nr0, b0) ==
    LET t == Warp(t0)
        files == EstimateFiles(ev, estimated_shadow_files)
    IN  /\ logical_tick' = t
        /\ estimated_shadow_files' = EstimateShadow(ev, estimated_shadow_files)
        /\ IF ApplyDirectly(files, dirty_shadow_logical_tick)
           THEN /\ shadow' = ApplyMemoryChanges(ev, shadow)
                /\ projected' = Append(projected, ev.id)
                /\ need_recompile' = Accumulate(TRUE, nr0)
                /\ batch' = Append(b0, DirectKind(ev))
                /\ pc' = "drain"
                /\ UNCHANGED <<dirty_shadow_logical_tick, depq>>
           ELSE /\ dirty_shadow_logical_tick' = MarkDirty(t, dirty_shadow_logical_tick)
                /\ Send(UpstreamUpdate(files, t, ev), "drain")
                /\ need_recompile' = Accumulate(FALSE, nr0)
                /\ batch' = Append(b0, "memDefer")
                /\ UNCHANGED <<shadow, projected>>
        /\ UNCHANGED <<latest_doc, compiled, root, deps, replies>>

\* process(CompilerInterrupt::Fs(event)); "fs" and "uu" end in notify_fs_event.
ProcessFs(e, t0, nr0, b0) ==
    /\ logical_tick' = Warp(t0)
    /\ IF IsUpstreamUpdate(e)
       THEN /\ dirty_shadow_logical_tick' = RecoverDirty(e.tick, dirty_shadow_logical_tick)
            /\ shadow' = ApplyMemoryChanges(e.ev, shadow)
            /\ projected' = Append(projected, e.ev.id)
       ELSE UNCHANGED <<dirty_shadow_logical_tick, shadow, projected>>
    /\ need_recompile' = Accumulate(TRUE, nr0)
    /\ batch' = Append(b0, FsKind(e))
    /\ pc' = "drain"
    /\ UNCHANGED <<estimated_shadow_files, latest_doc, compiled, root, deps, depq, replies>>

\* ------------------------------------------- the loop of CompileActor::spawn
\* tokio::select! over the three receivers: any ready branch may win.  The
\* actor owns steal_send and memory_send itself, so those two recv() never
\* yield None, and a closed fs channel only disables its branch: no run of
\* select! returns None and the `while let` never ends.
SelectFs ==
    /\ pc = "select"
    /\ fsq # <<>>
    /\ ProcessFs(Head(fsq), Warp(logical_tick), FALSE, <<>>)
    /\ fsq' = Tail(fsq)
    /\ UNCHANGED <<memq, stealq, watcher_alive, client_alive, nMem, nFs, nSteal>>
    /\ UNCHANGED otherVars

SelectMemory ==
    /\ pc = "select"
    /\ memq # <<>>
    /\ ProcessMemory(Head(memq), Warp(logical_tick), FALSE, <<>>)
    /\ memq' = Tail(memq)
    /\ UNCHANGED <<fsq, stealq, watcher_alive, client_alive, nMem, nFs, nSteal>>
    /\ UNCHANGED otherVars

SelectTask ==
    /\ pc = "select"
    /\ stealq # <<>>
    /\ ProcessTask(Head(stealq), Warp(logical_tick), FALSE, <<>>)
    /\ stealq' = Tail(stealq)
    /\ UNCHANGED <<fsq, memq, watcher_alive, client_alive, nMem, nFs, nSteal>>
    /\ UNCHANGED otherVars

\* A slip: the memory channel is tried before the fs channel.
DrainMemoryFirst(f, m, s) ==
    IF m # <<>> THEN "memory"
    ELSE IF f # <<>> THEN "fs"
    ELSE IF s # <<>> THEN "task"
    ELSE "none"

\* The try_recv chain of the drain loop: fs, or else memory, or else steal.
DrainSource(f, m, s) ==
    IF f # <<>> THEN "fs"
    ELSE IF m # <<>> THEN "memory"
    ELSE IF s # <<>> THEN "task"
    ELSE "none"

DrainFs ==
    /\ pc = "drain"
    /\ DrainSource(fsq, memq, stealq) = "fs"
    /\ ProcessFs(Head(fsq), logical_tick, need_recompile, batch)
    /\ fsq' = Tail(fsq)
    /\ UNCHANGED <<memq, stealq, watcher_alive, client_alive, nMem, nFs, nSteal>>
    /\ UNCHANGED otherVars

DrainMemory ==
    /\ pc = "drain"
    /\ DrainSource(fsq, memq, stealq) = "memory"
    /\ ProcessMemory(Head(memq), logical_tick, need_recompile, batch)
    /\ memq' = Tail(memq)
    /\ UNCHANGED <<fsq, stealq, watcher_alive, client_alive, nMem, nFs, nSteal>>
    /\ UNCHANGED otherVars

DrainTask ==
    /\ pc = "drain"
    /\ DrainSource(fsq, memq, stealq) = "task"
    /\ ProcessTask(Head(stealq), logical_tick, need_recompile, batch)
    /\ stealq' = Tail(stealq)
    /\ UNCHANGED <<fsq, memq, watcher_alive, client_alive, nMem, nFs, nSteal>>
    /\ UNCHANGED otherVars

\* A slip: the list is sent before it is filled.
CollectNothing(d) == {}

\* `self.compiler.iter_dependencies(&mut |dep, _| deps.push(dep.clone()))`:
\* the list sent holds every path the compiler enumerates.
CollectDependencies(d) == d

\* A slip: a failed compile leaves the previous document in place.
KeepOnFailure(res, prev) == IF res.some THEN res ELSE prev

\* `self.latest_doc = self.compiler.with_stage_diag(.., |driver| driver.compile())`
StoreResult(res, prev) == res

\* `if need_recompile { self.compile(..) }` once the drain finds nothing:
\* CompileActor::compile stores the compiler's result (a document or None),
\* then sends SyncDependency with what iter_dependencies enumerates.
BatchCompile ==
    /\ pc = "drain"
    /\ DrainSource(fsq, memq, stealq) = "none"
    /\ need_recompile
    /\ \E ok \in BOOLEAN : compiled' = CompileResult(ok, Len(projected))
    /\ latest_doc' = StoreResult(compiled', latest_doc)
    /\ deps' \in SUBSET Paths
    /\ Send(SyncDependency(CollectDependencies(deps')), "select")
    /\ batch' = <<>>
    /\ need_recompile' = FALSE
    /\ UNCHANGED <<logical_tick, dirty_shadow_logical_tick, estimated_shadow_files,
                   root, shadow, projected, replies, fsq, memq, stealq, watcher_alive,
                   client_alive, nMem, nFs, nSteal>>
    /\ UNCHANGED otherVars

BatchIdle ==
    /\ pc = "drain"
    /\ DrainSource(fsq, memq, stealq) = "none"
    /\ ~need_recompile
    /\ pc' = "select"
    /\ batch' = <<>>
    /\ UNCHANGED <<logical_tick, dirty_shadow_logical_tick, estimated_shadow_files,
                   latest_doc, compiled, root, shadow, deps, depq, need_recompile, projected, replies,
                   fsq, memq, stealq, watcher_alive, client_alive, nMem, nFs, nSteal>>
    /\ UNCHANGED otherVars

\* ------------------------------------------------------------ the client
\* CompileClient::add_memory_changes
AddMemoryChanges ==
    /\ client_alive
    /\ nMem < MaxMem
    /\ \E s \in BOOLEAN, r \in SmallSets, ins \in SmallSets :
          memq' = Append(memq, MemoryEvent(nMem + 1, s, r, ins))
    /\ nMem' = nMem + 1
    /\ UNCHANGED <<actorVars, fsq, stealq, depq, watcher_alive, client_alive, nFs, nSteal>>
    /\ UNCHANGED otherVars

\* CompileClient::steal_inner with a closure that reads CompileActor::document;
\* after = how many memory events had been enqueued before it, afterUpdate =
\* the last of them is an Update that is still in the memory channel.
BorrowTask(i, closure) ==
    [id |-> i, f |-> closure, rx |-> TRUE, after |-> nMem,
     afterUpdate |-> memq # <<>> /\ ~memq[Len(memq)].sync]

Steal ==
    /\ client_alive
    /\ nSteal < MaxSteal
    /\ stealq' = Append(stealq, BorrowTask(nSteal + 1, "document"))
    /\ nSteal' = nSteal + 1
    /\ UNCHANGED <<actorVars, fsq, memq, depq, watcher_alive, client_alive, nMem, nFs>>
    /\ UNCHANGED otherVars

\* ----------------------------------------------------------- the watcher
\* watch_deps reports a change set or the scan-done sentinel through fs_tx.
WatcherEvent ==
    /\ watcher_alive
    /\ nFs < MaxFs
    /\ \E k \in {"fs", "scan"} : fsq' = Append(fsq, FsEvent(k, 0, NoEvent))
    /\ nFs' = nFs + 1
    /\ UNCHANGED <<actorVars, memq, stealq, depq, watcher_alive, client_alive, nMem, nSteal>>
    /\ UNCHANGED otherVars

\* watch_deps takes the next NotifyMessage from dep_rx: a SyncDependency is
\* consumed, an UpstreamUpdate is handed back as FilesystemEvent::UpstreamUpdate.
WatcherForward ==
    /\ watcher_alive
    /\ depq # <<>>
    /\ depq' = Tail(depq)
    /\ fsq' = IF Head(depq).kind = "UpstreamUpdate"
              THEN Append(fsq, FsEvent("uu", Head(depq).tick, Head(depq).ev))
              ELSE fsq
    /\ UNCHANGED <<logical_tick, dirty_shadow_logical_tick, estimated_shadow_files,
                   latest_doc, compiled, root, shadow, deps, pc, need_recompile, projected, replies,
                   batch, memq, stealq, watcher_alive, client_alive, nMem, nFs, nSteal>>
    /\ UNCHANGED otherVars

\* ------------------------------------------------------- specifications
Next ==
    \/ SelectFs \/ SelectMemory \/ SelectTask
    \/ DrainFs \/ DrainMemory \/ DrainTask
    \/ BatchCompile \/ BatchIdle
    \/ AddMemoryChanges \/ Steal
    \/ WatcherEvent \/ WatcherForward

Spec == Init /\ [][Next]_vars

\* The environment closes what it holds: the CompileClient is dropped (its
\* clones of steal_send and memory_send go away), the watcher task ends
\* (dep_rx and fs_tx go away).
DropClient ==
    /\ client_alive
    /\ client_alive' = FALSE
    /\ UNCHANGED <<actorVars, fsq, memq, stealq, depq, watcher_alive, nMem, nFs, nSteal>>
    /\ UNCHANGED otherVars

WatcherExit ==
    /\ watcher_alive
    /\ watcher_alive' = FALSE
    /\ UNCHANGED <<actorVars, fsq, memq, stealq, depq, client_alive, nMem, nFs, nSteal>>
    /\ UNCHANGED otherVars

NextClose == Next \/ DropClient \/ WatcherExit

\* CompileClient::steal_inner with a closure that writes to the actor.
StealRoot ==
    /\ client_alive
    /\ nSteal < MaxSteal
    /\ stealq' = Append(stealq, BorrowTask(nSteal + 1, "set_root"))
    /\ nSteal' = nSteal + 1
    /\ UNCHANGED <<actorVars, fsq, memq, depq, watcher_alive, client_alive, nMem, nFs>>
    /\ UNCHANGED otherVars

\* The caller of steal_inner (or the future of steal_async) drops the
\* oneshot receiver while the task is still in the steal channel.
DropReceiver ==
    /\ \E i \in 1..Len(stealq) :
          /\ stealq[i].rx
          /\ stealq' = [stealq EXCEPT ![i].rx = FALSE]
    /\ UNCHANGED <<actorVars, fsq, memq, depq, watcher_alive, client_alive, nMem, nFs, nSteal>>
    /\ UNCHANGED otherVars

NextSteal == Next \/ StealRoot \/ DropReceiver

\* The compiler thread runs whenever it has something to do, and so does the
\* watcher task; the clients and the file system owe nothing.
Actor ==
    \/ SelectFs \/ SelectMemory \/ SelectTask
    \/ DrainFs \/ DrainMemory \/ DrainTask
    \/ BatchCompile \/ BatchIdle

FairSpec == Init /\ [][Next]_vars /\ WF_vars(Actor) /\ WF_vars(WatcherForward)

FairCloseSpec == Init /\ [][NextClose]_vars /\ WF_vars(Actor) /\ WF_vars(WatcherForward)

StealSpec == Init /\ [][NextSteal]_vars

\* ================================================================ claims
\* Helpers of the claims.
Last(q) == q[Len(q)]
\* An UpstreamUpdate that was emitted and has not yet been processed on return.
Outstanding == {i \in 1..Len(depq) : depq[i].kind = "UpstreamUpdate"}
Returning == {i \in 1..Len(fsq) : fsq[i].kind = "uu"}
Settled == Outstanding = {} /\ Returning = {}
\* The step takes the memory event at the head of the memory channel.
TakesMemory == memq # <<>> /\ memq' = Tail(memq)
\* The step takes the event at the head of the fs channel.
TakesFs == fsq # <<>> /\ Len(fsq') < Len(fsq)
Mapped(sh) == {p \in Paths : sh[p] # 0}

\* C1: memory events are projected onto the compiler in the order in which
\* they were submitted on the memory channel (ids grow with submission),
\* whichever path each one takes.
C1_SubmissionOrder ==
    \A i, j \in 1..Len(projected) : i < j => projected[i] < projected[j]

\* Two events projected, the later one by a returned update.
C1_Witness ==
    /\ Len(projected) >= 2
    /\ pc = "drain"
    /\ batch # <<>>
    /\ Last(batch) \in {"uuSync", "uuUpdate"}

\* C2: every memory event the actor has received is projected exactly once:
\* it is either in the projection history once, or carried by exactly one
\* update still on its round trip, never both and never neither; an event
\* still in the memory channel is in neither.
C2_ExactlyOnce ==
    \A id \in 1..nMem :
        LET done == Cardinality({i \in 1..Len(projected) : projected[i] = id})
            out  == Cardinality({i \in Outstanding : depq[i].ev.id = id})
            back == Cardinality({i \in Returning : fsq[i].ev.id = id})
        IN  IF \E i \in 1..Len(memq) : memq[i].id = id
            THEN done + out + back = 0
            ELSE done + out + back = 1

\* Nothing is left under way, and both paths have been taken.
C2_Witness ==
    /\ Settled
    /\ memq = <<>>
    /\ Len(projected) >= 2
    /\ pc = "drain"
    /\ \E i \in 1..Len(batch) : batch[i] \in {"directSync", "directUpdate"}
    /\ \E i \in 1..Len(batch) : batch[i] \in {"uuSync", "uuUpdate"}

\* C3 as stated: in every batch, a directly projected memory event is applied
\* before notify_fs_event is called for any filesystem event of that batch, so
\* the batch log never shows a direct projection after a notify_fs_event.
C3_DirectBeforeFs ==
    \A i, j \in 1..Len(batch) :
        (i < j /\ batch[i] \in NotifyingKinds) => batch[j] \notin {"directSync", "directUpdate"}

\* C3 amended: the drain loop tries the fs channel first, so a memory event
\* that is projected directly in the drain loop is taken only when the fs
\* channel is empty at that moment (every filesystem event queued so far has
\* already been given to notify_fs_event); only the event that woke the loop
\* can be a memory event taken while filesystem events are queued.
C3_FsDrainedFirst ==
    [][(pc = "drain" /\ TakesMemory /\ Len(projected') > Len(projected)) => fsq = <<>>]_vars

\* A direct projection that follows a notify_fs_event in the same batch.
C3_Witness ==
    /\ pc = "drain"
    /\ Len(batch) >= 2
    /\ batch[1] \in NotifyingKinds
    /\ Last(batch) \in {"directSync", "directUpdate"}

\* C4: in every settled state (no emitted UpstreamUpdate is still on its way
\* to the watcher or back) dirty_shadow_logical_tick is 0, and the actor
\* keeps reaching settled states: once the clients stop sending, every
\* emitted update returns and is processed.
C4_SettledClean ==
    /\ [](Settled => dirty_shadow_logical_tick = 0)
    /\ []<>Settled

\* Settled again after a round trip, the dirty tick is back to 0.
C4_Witness ==
    /\ Settled
    /\ dirty_shadow_logical_tick = 0
    /\ pc = "drain"
    /\ \E i \in 1..Len(batch) : batch[i] = "memDefer"
    /\ Last(batch) \in {"uuSync", "uuUpdate"}

\* The memory event a step gives to apply_memory_changes, if it gives one:
\* the head of the memory channel on the direct path, the payload of the
\* returned update at the head of the fs channel otherwise.
ProjectsNow == Len(projected') = Len(projected) + 1
ProjectedEvent ==
    IF memq # <<>> /\ Head(memq).id = Last(projected') THEN Head(memq) ELSE Head(fsq).ev

\* C5: once a Sync has been projected (directly or on the return of its
\* update) the paths of the compiler's shadow map are exactly the paths of
\* the Sync's inserts, whatever was mapped before and whatever it removes.
C5_SyncReplaces ==
    [][(ProjectsNow /\ ProjectedEvent.sync) => Mapped(shadow') = ProjectedEvent.inserts]_vars

\* A Sync came back from its round trip after another memory event had been
\* projected, and it left something mapped.
C5_Witness ==
    /\ pc = "drain"
    /\ batch # <<>>
    /\ Last(batch) = "uuSync"
    /\ Mapped(shadow) # {}
    /\ Len(projected) >= 2

\* C6 as stated: a steal task enqueued after a memory Update returns the value
\* stored by a compile that ran after that Update was projected (never the
\* result of an earlier compile, nor the initial none).
C6_StealSeesUpdate ==
    \A i \in 1..Len(replies) :
        replies[i].afterUpdate => replies[i].doc.seen >= replies[i].after

\* C6 amended: the steal task returns latest_doc as it is when the task runs,
\* and compile runs only at the end of a batch, so the returned value was
\* stored by a compile that ran before the task's batch began: it reflects
\* the memory events projected before that batch at most, never one
\* projected in the task's own batch and never one still deferred.
C6_StealSeesEarlierBatches ==
    \A i \in 1..Len(replies) : replies[i].doc.seen <= replies[i].startSeen

\* A task enqueued after a memory Update got a document that predates it.
C6_Witness ==
    \E i \in 1..Len(replies) :
        /\ replies[i].afterUpdate
        /\ replies[i].doc.some
        /\ replies[i].doc.seen < replies[i].after

\* The step processes an Update whose removes and inserts are both empty.
TakesEmptyUpdate ==
    /\ TakesMemory
    /\ ~Head(memq).sync
    /\ Head(memq).removes = {}
    /\ Head(memq).inserts = {}

\* C7 as stated: an Update with no removes and no inserts changes neither the
\* estimate, the shadow map nor the dirty tick, emits nothing, and does not
\* raise the recompile flag (a batch of it alone compiles nothing).
C7_EmptyUpdateNoOp ==
    [][TakesEmptyUpdate =>
          /\ estimated_shadow_files' = estimated_shadow_files
          /\ shadow' = shadow
          /\ dirty_shadow_logical_tick' = dirty_shadow_logical_tick
          /\ depq' = depq
          /\ (pc = "select" => ~need_recompile')]_vars

\* C7 amended: an Update with no removes and no inserts leaves the estimate
\* and the shadow map unchanged.  With the dirty tick at 0 it also leaves the
\* dirty tick alone and emits nothing, but it is projected directly and so
\* raises the recompile flag: a batch of it alone runs one compile and sends
\* one SyncDependency.  With the dirty tick non-zero it is deferred like any
\* memory event: the dirty tick becomes the current tick and one
\* UpstreamUpdate with no invalidated path is emitted.
C7_EmptyUpdateRecompiles ==
    /\ [][TakesEmptyUpdate =>
            /\ estimated_shadow_files' = estimated_shadow_files
            /\ shadow' = shadow
            /\ IF dirty_shadow_logical_tick = 0
               THEN /\ dirty_shadow_logical_tick' = 0
                    /\ depq' = depq
                    /\ need_recompile'
                    /\ ProjectsNow
               ELSE /\ dirty_shadow_logical_tick' = logical_tick'
                    /\ depq' = Append(depq, UpstreamUpdate({}, logical_tick', Head(memq)))
                    /\ need_recompile' = (pc = "drain" /\ need_recompile)
                    /\ projected' = projected]_vars
    /\ [][(pc = "drain" /\ pc' = "select" /\ batch = <<"directUpdate">>) =>
            depq' = Append(depq, SyncDependency(deps'))]_vars

\* The first memory event was an empty Update (nothing estimated, nothing
\* mapped), projected directly, alone in its batch, about to be compiled.
C7_Witness ==
    /\ pc = "drain"
    /\ batch = <<"directUpdate">>
    /\ projected = <<1>>
    /\ estimated_shadow_files = {}
    /\ Mapped(shadow) = {}
    /\ need_recompile
    /\ DrainSource(fsq, memq, stealq) = "none"

\* The step processes Update(inserts = [(P, content)]) with no removes.
TakesInsertOf(P) ==
    /\ TakesMemory
    /\ ~Head(memq).sync
    /\ Head(memq).removes = {}
    /\ Head(memq).inserts = {P}
\* The step processes the return of the update that carried such an event.
TakesReturnOfInsertOf(P) ==
    /\ TakesFs
    /\ Head(fsq).kind = "uu"
    /\ ~Head(fsq).ev.sync
    /\ Head(fsq).ev.removes = {}
    /\ Head(fsq).ev.inserts = {P}

\* C8 as stated: when P is among the dependencies last published and
\* Update(inserts = [(P, content)]) is processed, the actor emits one
\* UpstreamUpdate, sets the dirty tick to the current tick and does not map
\* P; the map, the reset of the dirty tick to 0 and the recompile come with
\* the return of that update.
C8_OverlapDefers ==
    [][\A P \in Paths :
          /\ (TakesInsertOf(P) /\ P \in deps) =>
                /\ depq' = Append(depq, UpstreamUpdate({}, logical_tick', Head(memq)))
                /\ dirty_shadow_logical_tick' = logical_tick'
                /\ shadow' = shadow
          /\ TakesReturnOfInsertOf(P) =>
                /\ shadow'[P] = Head(fsq).ev.id
                /\ dirty_shadow_logical_tick' = 0
                /\ need_recompile']_vars

\* C8 amended: the actor does not look at the watched paths.  When
\* Update(inserts = [(P, content)]) with no removes is processed, watched or
\* not: with the dirty tick at 0 map_shadow(P, content) is called at once,
\* no UpstreamUpdate is emitted and the recompile flag is raised; with the
\* dirty tick non-zero the actor emits exactly one UpstreamUpdate, sets the
\* dirty tick to the current tick T and does not call map_shadow.  When that
\* update is fed back as a filesystem event map_shadow(P, content) is called
\* and the recompile flag raised, and the dirty tick is reset to 0 if it
\* still is T (no later memory event was deferred meanwhile).
C8_DeferOnlyWhenDirty ==
    [][\A P \in Paths :
          /\ TakesInsertOf(P) =>
                IF dirty_shadow_logical_tick = 0
                THEN /\ shadow'[P] = Head(memq).id
                     /\ depq' = depq
                     /\ dirty_shadow_logical_tick' = 0
                     /\ need_recompile'
                ELSE /\ depq' = Append(depq, UpstreamUpdate({}, logical_tick', Head(memq)))
                     /\ dirty_shadow_logical_tick' = logical_tick'
                     /\ shadow' = shadow
          /\ TakesReturnOfInsertOf(P) =>
                /\ shadow'[P] = Head(fsq).ev.id
                /\ need_recompile'
                /\ dirty_shadow_logical_tick' =
                      (IF Head(fsq).tick = dirty_shadow_logical_tick
                       THEN 0 ELSE dirty_shadow_logical_tick)]_vars

\* A watched path was mapped by the return of a deferred Update, and the
\* dirty tick is back to 0.
C8_Witness ==
    /\ pc = "drain"
    /\ batch # <<>>
    /\ Last(batch) = "uuUpdate"
    /\ dirty_shadow_logical_tick = 0
    /\ \E P \in deps : shadow[P] = Last(projected)

\* The entries of the batch log that raise the recompile flag.
FlagKinds == {"fs", "scan", "uuSync", "uuUpdate", "directSync", "directUpdate"}
Compiles == \E d \in SUBSET Paths : depq' = Append(depq, SyncDependency(d))
BatchEnds == pc = "drain" /\ pc' = "select"

\* C9: a batch ends only when the three channels are empty, compile (and its
\* one SyncDependency) happens only at the end of a batch, and it happens
\* exactly when some event of the batch raised the flag: a filesystem event,
\* the scan-done signal or a directly projected memory event; steal tasks
\* and deferred memory events alone compile nothing.
C9_OneCompilePerBatch ==
    /\ [][BatchEnds =>
            /\ fsq = <<>> /\ memq = <<>> /\ stealq = <<>>
            /\ IF \E i \in 1..Len(batch) : batch[i] \in FlagKinds
               THEN Compiles /\ deps' = Last(depq').deps
               ELSE depq' = depq /\ latest_doc' = latest_doc /\ deps' = deps]_vars
    /\ [][(Compiles \/ latest_doc' # latest_doc \/ deps' # deps) => BatchEnds]_vars

\* A filesystem event, a Sync projected directly on an empty estimate and a
\* steal task, all in one batch, which is about to compile once.
C9_Witness ==
    /\ pc = "drain"
    /\ DrainSource(fsq, memq, stealq) = "none"
    /\ need_recompile
    /\ Len(batch) >= 3
    /\ \E i \in 1..Len(batch) : batch[i] = "fs"
    /\ \E i \in 1..Len(batch) : batch[i] = "directSync"
    /\ Last(batch) = "task"

\* Nothing can be sent on any of the three channels any more (the client is
\* dropped, the watcher has ended), nothing is left in them, and the loop is
\* back at its select.
AllSourcesClosed ==
    /\ ~client_alive
    /\ ~watcher_alive
    /\ fsq = <<>> /\ memq = <<>> /\ stealq = <<>>
    /\ pc = "select"

\* C10 as stated: when all three sources are closed the loop comes to its
\* end ("CompileActor: exited"); it neither blocks for ever nor aborts, also
\* when they are closed before any event was delivered.
C10_LoopTerminates ==
    AllSourcesClosed ~> (pc = "exited")

\* The ticks stamped on the updates that are on their way to the watcher or back.
StampsOut == [i \in Outstanding |-> depq[i].tick]
StampsBack == [i \in Returning |-> fsq[i].tick]
\* The step emits an UpstreamUpdate.
Emits == Len(depq') > Len(depq) /\ Last(depq').kind = "UpstreamUpdate"
\* The step passes an event to process.
Processes == Len(batch') = Len(batch) + 1 \/ (pc = "select" /\ batch' # <<>>)

\* C11: the logical tick starts at 1, never decreases, and grows by at least
\* one with every event passed to process; a deferred memory event is stamped
\* with the tick just reached, which is above every stamp given before, so
\* no two deferred events carry the same tick.
C11_TickMonotonic ==
    /\ logical_tick = 1
    /\ [][/\ logical_tick' >= logical_tick
          /\ Processes => logical_tick' > logical_tick
          /\ Emits => Last(depq').tick = logical_tick' /\ Last(depq').tick > logical_tick]_vars
    /\ [](/\ \A i \in Outstanding : StampsOut[i] <= logical_tick
          /\ \A i \in Returning : StampsBack[i] <= logical_tick
          /\ \A i, j \in Outstanding : i # j => StampsOut[i] # StampsOut[j]
          /\ \A i, j \in Returning : i # j => StampsBack[i] # StampsBack[j]
          /\ \A i \in Outstanding, j \in Returning : StampsOut[i] # StampsBack[j])

\* Two deferred memory events are under way at once, one already handed back
\* by the watcher, the other still on its way to it.
C11_Witness ==
    /\ Outstanding # {}
    /\ Returning # {}
    /\ logical_tick > 1

\* The step runs a steal closure.
RunsTask == Len(replies') = Len(replies) + 1
Queued(i) == Cardinality({k \in 1..Len(stealq) : stealq[k].id = i})
Ran(i) == Cardinality({k \in 1..Len(replies) : replies[k].id = i})

C13_CancelledStealStillRuns ==
    /\ [][(RunsTask /\ ~Head(stealq).rx) =>
            /\ root' = (IF Head(stealq).f = "set_root" THEN 1 ELSE root)
            /\ ~Last(replies').delivered
            /\ Last(replies').oldRoot = root
            /\ pc' = "drain"]_vars
    /\ [](\A i \in 1..Len(replies) : replies[i].f = "set_root" => root = 1)

\* A writing closure whose receiver had been dropped has run, its write is in
\* place, and the loop has processed another event after it in the batch.
C13_Witness ==
    /\ \E i \in 1..Len(replies) :
          replies[i].f = "set_root" /\ ~replies[i].wanted /\ ~replies[i].delivered
    /\ root = 1
    /\ pc = "drain"
    /\ \E i \in 1..Len(batch) : batch[i] = "task" /\ i < Len(batch)

\* C14: after every compile of the loop latest_doc is what that compile
\* returned: the new document when it produced one, none when it failed,
\* whatever document was stored before; either way the loop is back at its
\* select afterwards and takes later events.
C14_LatestDocIsLastResult ==
    /\ [][Compiles =>
            /\ compiled' \in {CompileResult(TRUE, Len(projected)),
                              CompileResult(FALSE, Len(projected))}
            /\ latest_doc' = compiled'
            /\ (~compiled'.some => ~latest_doc'.some)
            /\ pc' = "select"]_vars
    /\ [](latest_doc = compiled)

\* A compile failed after an earlier one had produced a document: the
\* document is gone, and the loop has taken an event since.
C14_Witness ==
    /\ ~latest_doc.some
    /\ ~compiled.some
    /\ \E i \in 1..Len(replies) : replies[i].doc.some
    /\ pc = "drain"
    /\ batch # <<>>

\* The step runs CompileActor::compile.
RunsCompile == BatchEnds /\ need_recompile
SendsSyncDependency == Len(depq') > Len(depq) /\ Last(depq').kind = "SyncDependency"

\* C15: every compile of the loop puts exactly one message on the notify
\* channel before the loop takes another event, a SyncDependency whose paths
\* are exactly those the compiler's iter_dependencies enumerates after that
\* compile; and a SyncDependency is sent by no other step.
C15_SyncDependencyAfterCompile ==
    /\ [][RunsCompile =>
            /\ depq' = Append(depq, SyncDependency(deps'))
            /\ UNCHANGED <<fsq, memq, stealq, projected, replies>>]_vars
    /\ [][SendsSyncDependency => RunsCompile]_vars

\* The loop is back at its select after a compile that consulted a file; the
\* last message on the notify channel is the SyncDependency naming it.
C15_Witness ==
    /\ pc = "select"
    /\ deps # {}
    /\ depq # <<>>
    /\ Last(depq) = SyncDependency(deps)
    /\ Len(projected) >= 1

\* The spans of all glyphs of a frame, those inside its groups included.
RECURSIVE SpansOfFrame(_)
SpansOfFrame(f) ==
    IF f = <<>> THEN {}
    ELSE {Head(f).glyphs[i].span : i \in DOMAIN Head(f).glyphs}
         \cup SpansOfFrame(Head(f).frame) \cup SpansOfFrame(Tail(f))
SpansOf(fs) == UNION {SpansOfFrame(fs[i]) : i \in DOMAIN fs}

\* C16: jump_from_cursor returns a position only if the leaf at the cursor
\* is a text leaf and some glyph of the frames has the span of the leaf or a
\* span of the same source file; it returns none for an empty list of frames,
\* for a leaf that is not text, and when no glyph of any frame belongs to
\* the source file of the leaf.
C16_SomeOnlyIfTextAndSameSource ==
    jump.done =>
        /\ jump.res.some =>
              /\ leaf.some /\ leaf.kind = "Text"
              /\ \E sp \in SpansOf(frames) : sp = leaf.span \/ sp.id = leaf.span.id
        /\ frames = <<>> => ~jump.res.some
        /\ (leaf.some /\ leaf.kind # "Text") => ~jump.res.some
        /\ (\A sp \in SpansOf(frames) : sp.id # leaf.span.id) => ~jump.res.some

\* A position came back for a text leaf whose span no glyph has: a glyph of
\* the same source file stood in for it, next to a glyph of another file.
C16_Witness ==
    /\ jump.done
    /\ jump.res.some
    /\ leaf.span \notin SpansOf(frames)
    /\ \E sp \in SpansOf(frames) : sp.id # leaf.span.id

\* The operation of the newest call on the TraceAccessModel.
CallsNow == Len(outer_log') = Len(outer_log) + 1

\* C17: the TraceAccessModel changes neither what the wrapped model does nor
\* what it returns: every operation made on it (mtime, is_file, real_path,
\* read_all, read_all_diff, replace_diff, clear) reaches the wrapped model
\* exactly once, with the same path, and returns exactly what the wrapped
\* model returned, value or file error; and besides the wrapped model the
\* only state a call touches is the counter of its own operation.
C17_TraceIsTransparent ==
    /\ [](outer_log = inner_log)
    /\ [][CallsNow =>
            /\ Len(inner_log') = Len(inner_log) + 1
            /\ \A k \in 0..5 : trace'[k] # trace[k] => k = TraceSlot(Last(outer_log').op)
            /\ UNCHANGED <<actorVars, frames, leaf, jump>>]_vars
    /\ [][trace' # trace => CallsNow]_vars

\* The wrapped model has failed a read_all and has been cleared; the error
\* came through and the time of the read was counted.
C17_Witness ==
    /\ \E i \in 1..Len(outer_log) : outer_log[i].op = "read_all" /\ ~outer_log[i].res.ok
    /\ \E i \in 1..Len(outer_log) : outer_log[i].op = "clear"
    /\ trace[3] > 0

\* C18: when a memory event is processed, its invalidation set is, for a
\* Sync, the previous estimate plus the removes minus the inserts, and for
\* an Update the removes minus the inserts.  If the set is empty and the
\* dirty tick is 0 the event is projected at once, nothing is sent to the
\* watcher and the recompile flag is raised.  Otherwise the event is not
\* projected, the dirty tick becomes the current logical tick, exactly one
\* UpstreamUpdate is emitted, with that set as invalidates and with that
\* tick and the event as payload, and the event does not raise the flag.
C18_MemoryDispatch ==
    [][TakesMemory =>
          LET ev == Head(memq)
              inv == IF ev.sync
                     THEN (estimated_shadow_files \cup ev.removes) \ ev.inserts
                     ELSE ev.removes \ ev.inserts
          IN  IF inv = {} /\ dirty_shadow_logical_tick = 0
              THEN /\ projected' = Append(projected, ev.id)
                   /\ Mapped(shadow') =
                         ((IF ev.sync THEN {} ELSE Mapped(shadow)) \ ev.removes) \cup ev.inserts
                   /\ depq' = depq
                   /\ dirty_shadow_logical_tick' = 0
                   /\ need_recompile'
              ELSE /\ projected' = projected
                   /\ shadow' = shadow
                   /\ dirty_shadow_logical_tick' = logical_tick'
                   /\ depq' = Append(depq, UpstreamUpdate(inv, logical_tick', ev))
                   /\ need_recompile' = (pc = "drain" /\ need_recompile)]_vars

\* In one batch a memory event was projected directly and the next one, a
\* Sync over a non-empty estimate, was deferred with a non-empty set.
C18_Witness ==
    /\ pc = "drain"
    /\ Len(batch) >= 2
    /\ batch[Len(batch) - 1] \in {"directSync", "directUpdate"}
    /\ Last(batch) = "memDefer"
    /\ depq # <<>>
    /\ Last(depq).kind = "UpstreamUpdate"
    /\ Last(depq).ev.sync
    /\ Last(depq).invalidates # {}
    /\ Last(depq).tick = dirty_shadow_logical_tick

\* The step processes a returned UpstreamUpdate.
TakesReturn == TakesFs /\ Head(fsq).kind = "uu"

\* C19: when a returned UpstreamUpdate carrying tick T is processed, the
\* dirty tick becomes 0 if it equals T and is left as it is otherwise; in
\* both cases the memory event it carries is projected onto the compiler,
\* the event goes on to notify_fs_event, and the recompile flag is raised.
C19_ReturnedUpdate ==
    [][TakesReturn =>
          LET T == Head(fsq).tick
              ev == Head(fsq).ev
          IN  /\ dirty_shadow_logical_tick' =
                    (IF T = dirty_shadow_logical_tick THEN 0 ELSE dirty_shadow_logical_tick)
              /\ projected' = Append(projected, ev.id)
              /\ Mapped(shadow') =
                    ((IF ev.sync THEN {} ELSE Mapped(shadow)) \ ev.removes) \cup ev.inserts
              /\ \A q \in ev.inserts : shadow'[q] = ev.id
              /\ Last(batch') \in NotifyingKinds
              /\ need_recompile'
              /\ depq' = depq]_vars

\* The older of two updates has come back: its event is projected, and the
\* dirty tick still is the tick of the younger one, which is yet to return.
C19_Witness ==
    /\ pc = "drain"
    /\ batch # <<>>
    /\ Last(batch) \in {"uuSync", "uuUpdate"}
    /\ dirty_shadow_logical_tick # 0
    /\ need_recompile
    /\ ~Settled

\* The tick stamped on the most recently emitted update that has not come
\* back: the last one on its way to the watcher, or else the last one on its
\* way back from it.
NewestStamp ==
    IF Outstanding # {}
    THEN depq[CHOOSE i \in Outstanding : \A j \in Outstanding : j <= i].tick
    ELSE fsq[CHOOSE i \in Returning : \A j \in Returning : j <= i].tick

\* C20: whenever an emitted UpstreamUpdate has not yet come back, the dirty
\* tick is non-zero and is the tick stamped on the most recently emitted of
\* them (the watcher returning updates in the order of emission); so no
\* memory event is projected directly meanwhile, and the return of an update
\* that is not the most recent one does not clear the dirty tick.
C20_DirtyWhileOutstanding ==
    /\ [](~Settled =>
            /\ dirty_shadow_logical_tick # 0
            /\ dirty_shadow_logical_tick = NewestStamp)
    /\ [][(TakesMemory /\ ~Settled) => projected' = projected]_vars
    /\ [][(TakesReturn /\ Cardinality(Outstanding) + Cardinality(Returning) >= 2) =>
            /\ dirty_shadow_logical_tick' = dirty_shadow_logical_tick
            /\ dirty_shadow_logical_tick' # 0]_vars

\* Two updates were under way; the older has just been processed on its
\* return and the dirty tick still is the stamp of the younger.
C20_Witness ==
    /\ pc = "drain"
    /\ batch # <<>>
    /\ Last(batch) \in {"uuSync", "uuUpdate"}
    /\ Cardinality(Outstanding) + Cardinality(Returning) = 1
    /\ dirty_shadow_logical_tick = NewestStamp
    /\ nMem = 2

\* C21: in every state in which no UpstreamUpdate is on its way to the
\* watcher or back, the paths of estimated_shadow_files are exactly the paths
\* mapped in the compiler's shadow map (both empty at the start, map_shadow
\* and unmap_shadow succeeding), whatever Syncs and Updates were received,
\* also those that remove and insert the same path.
C21_EstimateConverges ==
    Settled => estimated_shadow_files = Mapped(shadow)

\* Two memory events have been received, one of them went the round trip,
\* nothing is under way any more, and a path is both estimated and mapped.
C21_Witness ==
    /\ Settled
    /\ pc = "drain"
    /\ batch # <<>>
    /\ Last(batch) \in {"uuSync", "uuUpdate"}
    /\ Len(projected) = 2
    /\ memq = <<>>
    /\ estimated_shadow_files # {}
    /\ estimated_shadow_files = Mapped(shadow)

\* Where each glyph of a text run lies: the position of the run, moved
\* right by the advances of the glyphs before it, and by off, the summed
\* positions of the groups around the run.
RECURSIVE PlacedRun(_, _, _)
PlacedRun(glyphs, pos, off) ==
    IF glyphs = <<>> THEN <<>>
    ELSE <<[span |-> Head(glyphs).span, point |-> AddPoint(off, pos)]>>
         \o PlacedRun(Tail(glyphs), Pt(pos.x + Head(glyphs).x_advance, pos.y), off)

\* The glyphs of a frame in the order of the frame, each with its place on
\* the page.
RECURSIVE PlacedFrame(_, _)
PlacedFrame(f, off) ==
    IF f = <<>> THEN <<>>
    ELSE (IF Head(f).kind = "group"
          THEN PlacedFrame(Head(f).frame, AddPoint(off, Head(f).pos))
          ELSE PlacedRun(Head(f).glyphs, Head(f).pos, off))
         \o PlacedFrame(Tail(f), off)

\* The glyphs of all pages from page k on, in page order, each with its page.
RECURSIVE PlacedFrom(_, _)
PlacedFrom(fs, k) ==
    IF k > Len(fs) THEN <<>>
    ELSE LET g == PlacedFrame(fs[k], PointDefault)
         IN  [i \in DOMAIN g |-> [span |-> g[i].span, point |-> g[i].point, page |-> k]]
             \o PlacedFrom(fs, k + 1)

\* What the lookup is to return for span sp: the first glyph with that span,
\* or else the glyph of the same source file nearest by span number (the
\* earliest of several), with its page and its place on that page.
ExpectedJump(fs, sp) ==
    LET all == PlacedFrom(fs, 1)
        exact == {i \in DOMAIN all : all[i].span = sp}
        cands == {i \in DOMAIN all : all[i].span.id = sp.id}
        dist(i) == abs_diff(all[i].span.number, sp.number)
        first(S) == CHOOSE i \in S : \A j \in S : i <= j
        nearest == {i \in cands : \A j \in cands : dist(i) <= dist(j)}
    IN  IF exact # {} THEN Position(all[first(exact)].page, all[first(exact)].point)
        ELSE IF cands # {} THEN Position(all[first(nearest)].page, all[first(nearest)].point)
        ELSE NoPosition

\* C22 as stated: for a text leaf with span s, jump_from_cursor returns the
\* first glyph whose span is s, in page order, with its 1-based page and its
\* point on the page (the positions of the groups around it added); if there
\* is none, it returns the glyph of the source file of s whose span number
\* is nearest to that of s (the earliest on ties), with the 1-based page
\* that holds it and with its point on that page, the same point an exact
\* match on that glyph would give.
C22_JumpResult ==
    (jump.done /\ leaf.some /\ leaf.kind = "Text") =>
        jump.res = ExpectedJump(frames, leaf.span)

====
